---------------------------- MODULE Spec2Model ----------------------------
(***************************************************************************)
(* Model of the clothes-inventory dashboard (src/app.py) and of the seed   *)
(* script (src/seed_data.py).                                              *)
(*                                                                         *)
(* src/app.py is a script that the UI framework runs top to bottom once    *)
(* per render pass.  The pass is modelled by the position pc:              *)
(*   "start"      before line 20                                           *)
(*   "stopped"    st.stop() at line 31 was reached                         *)
(*   "configured" lines 20-31 passed, load_data() not yet called           *)
(*   "failed"     load_data() raised (the pass ends with the error)        *)
(*   "loaded"     df = load_data() returned (line 56)                      *)
(*   "widgets"    the sidebar widgets returned their values (59-72)        *)
(*   "masked"     data = df[mask] is computed (74-81)                      *)
(*   "raised"     a conversion of lines 87-88 raised                       *)
(*   "done"       the Items and Units metrics are rendered (86-88)         *)
(* Lines 89-112 hand data to the charting and table widgets and assign     *)
(* nothing; they are not modelled.                                         *)
(*                                                                         *)
(* Three specifications share the actions: Spec runs render passes against *)
(* a table that changes and a clock that advances; ConfigSpec runs the     *)
(* configuration step and load_data over every bounded content of the two  *)
(* configuration layers; FilterSpec runs the widgets, the filter and the   *)
(* metrics over every bounded RecordSet.  SeedSpec runs the seed script.   *)
(* Rows are well typed: no column is NULL, as the seed script writes them. *)
(*                                                                         *)
(* A definition introduced as a "variant" is the definition that follows   *)
(* it with one plausible slip; the properties are also checked against     *)
(* the variants, which they must reject.                                   *)
(*                                                                         *)
(* Prices are DECIMAL(10,2) values, modelled as integers in cents.  A      *)
(* Python float that may be NaN is modelled as a sequence: <<>> is NaN and *)
(* <<v>> is the number v.  The columns ItemID and CreatedUtc are read by   *)
(* no statement of the filter or of the metrics and are left out of the    *)
(* records.                                                                *)
(***************************************************************************)
EXTENDS Integers, Sequences, FiniteSets, TLC

VARIABLES
    secrets,      \* st.secrets: key -> value, None when the key is absent
    env,          \* os.environ (after load_dotenv): key -> value or None
    missing,      \* app.py:21, the list of unresolved required keys
    errorMsg,     \* app.py:23, the text st.error shows, as a token list
    engine,       \* st.cache_resource of get_engine: <<>> or <<conn_str>>
    store,        \* rows of dbo.Clothes, in retrieval order
    tableExists,  \* OBJECT_ID('dbo.Clothes','U') IS NOT NULL
    cache,        \* st.cache_data of load_data: <<>> or <<[value, fetchedAt]>>
    now,          \* the clock the cache reads, in seconds
    loadResult,   \* outcome of the latest load_data call
    queries,      \* SELECTs issued by the latest load_data call
    df,           \* app.py:56
    cat_sel,      \* app.py:61
    brand_sel,    \* app.py:63
    size_sel,     \* app.py:65
    colour_sel,   \* app.py:67
    price_min,    \* app.py:69
    price_max,    \* app.py:69
    data,         \* app.py:81
    kpi1,         \* app.py:87, the text of the Items metric
    kpi2,         \* app.py:88, the text of the Units metric
    pc,           \* position of the render pass
    seedPc,       \* position of the seed script
    rows,         \* seed_data.py:56
    prng,         \* state of the generators the seed script draws from
    seedRuns,     \* successful runs of the seed script so far
    store0,       \* the table as it was before the first run of the seed script
    existed0      \* whether the table existed before the first run

vars == <<secrets, env, missing, errorMsg, engine, store, tableExists, cache,
          now, loadResult, queries, df, cat_sel, brand_sel, size_sel,
          colour_sel, price_min, price_max, data, kpi1, kpi2, pc, seedPc,
          rows, prng, seedRuns, store0, existed0>>

configVars == <<secrets, env>>
passVars   == <<df, cat_sel, brand_sel, size_sel, colour_sel, price_min,
                price_max, data, kpi1, kpi2>>
seedVars   == <<seedPc, rows, prng, seedRuns, store0, existed0, tableExists>>

-----------------------------------------------------------------------------
(* Bounds of the model *)

MaxRows == 3        \* longest RecordSet drawn for the filter
MaxStoreRows == 2   \* rows written to the table while the dashboard runs
MaxTime == 1200     \* the clock stops advancing here
MaxSeedRuns == 2    \* runs of the seed script

-----------------------------------------------------------------------------
(* Values *)

None == "<None>"

NaN == <<>>
Num(v) == <<v>>
IsNaN(x) == x = <<>>

Range(s) == {s[i] : i \in DOMAIN s}

RECURSIVE SeqsUpTo(_, _)
SeqsUpTo(S, n) ==
    IF n = 0 THEN {<<>>}
    ELSE LET shorter == SeqsUpTo(S, n - 1)
         IN  shorter \cup {Append(s, x) : s \in {t \in shorter : Len(t) = n - 1}, x \in S}

Row(c, b, s, co, p, u) ==
    [Category |-> c, Brand |-> b, Size |-> s, Colour |-> co, Price |-> p,
     UnitsInStock |-> u]

\* The records the row sets are drawn from: the two rows of the scenario of
\* the specification and two more that share column values with them.
Catalog ==
    { Row("Jeans",  "Acme",    "M", "Blue", 4500, 10),
      Row("Hoodie", "Contoso", "L", "Red",  4000, 20),
      Row("Jeans",  "Contoso", "M", "Red",  4100, 700),
      Row("Hoodie", "Acme",    "L", "Blue", 4500, 700) }

\* Positions the price slider can be dragged to (its step is 0.01).
SliderGrid == {4050, 4100}

-----------------------------------------------------------------------------
(* pandas, as app.py uses it *)

Column(frame, name) == [i \in 1..Len(frame) |-> frame[i][name]]

\* Series.unique(): the distinct values in order of first appearance.
RECURSIVE unique(_)
unique(col) ==
    IF Len(col) = 0 THEN <<>>
    ELSE LET init == unique(SubSeq(col, 1, Len(col) - 1))
             x    == col[Len(col)]
         IN  IF x \in Range(init) THEN init ELSE Append(init, x)

\* Series.min() / Series.max(), then float(): NaN on an empty column.
series_min(col) ==
    IF Len(col) = 0 THEN NaN
    ELSE Num(CHOOSE m \in Range(col) : \A x \in Range(col) : m <= x)

series_max(col) ==
    IF Len(col) = 0 THEN NaN
    ELSE Num(CHOOSE m \in Range(col) : \A x \in Range(col) : m >= x)

RECURSIVE SumSeq(_)
SumSeq(col) ==
    IF Len(col) = 0 THEN 0 ELSE SumSeq(SubSeq(col, 1, Len(col) - 1)) + col[Len(col)]

\* Variant of series_sum: NaN on an empty column, as mean() gives.
series_sum_nan(col) == IF Len(col) = 0 THEN NaN ELSE Num(SumSeq(col))
\* Series.sum(): 0 on an empty column (min_count = 0).
series_sum(col) == Num(SumSeq(col))

\* Variant of isin: an empty selection filters nothing.
isin_all_when_empty(col, values) ==
    [i \in 1..Len(col) |-> values = {} \/ col[i] \in values]
\* Series.isin(values): element-wise membership.
isin(col, values) == [i \in 1..Len(col) |-> col[i] \in values]

\* Variant of between: inclusive = "neither".
between_exclusive(col, left, right) ==
    [i \in 1..Len(col) |->
        /\ ~IsNaN(left) /\ ~IsNaN(right)
        /\ col[i] > left[1] /\ col[i] < right[1]]
\* Series.between(left, right), inclusive = "both": (s >= left) & (s <= right).
\* A comparison with NaN is False.
between(col, left, right) ==
    [i \in 1..Len(col) |->
        /\ ~IsNaN(left) /\ ~IsNaN(right)
        /\ col[i] >= left[1] /\ col[i] <= right[1]]

\* Variant of boolean_index: the kept rows in reverse order.
RECURSIVE boolean_index_reversed(_, _)
boolean_index_reversed(frame, m) ==
    IF Len(frame) = 0 THEN <<>>
    ELSE LET init == boolean_index_reversed(SubSeq(frame, 1, Len(frame) - 1),
                                            SubSeq(m, 1, Len(frame) - 1))
         IN  IF m[Len(frame)] THEN <<frame[Len(frame)]>> \o init ELSE init

\* df[mask]: the rows whose mask entry is True, in the order of df.
RECURSIVE boolean_index(_, _)
boolean_index(frame, m) ==
    IF Len(frame) = 0 THEN <<>>
    ELSE LET init == boolean_index(SubSeq(frame, 1, Len(frame) - 1),
                                   SubSeq(m, 1, Len(frame) - 1))
         IN  IF m[Len(frame)] THEN Append(init, frame[Len(frame)]) ELSE init

-----------------------------------------------------------------------------
(* Configuration, lines 15-31 *)

REQUIRED == <<"DRIVER", "SERVER", "DATABASE", "UID", "PWD">>

Keys == Range(REQUIRED) \cup {"DB_PORT"}

\* Truth value of a Python str-or-None: None and "" are false.
Truthy(v) == v # None /\ v # ""

\* a or b
py_or(a, b) == IF Truthy(a) THEN a ELSE b

\* Variant of get_cfg: the environment before the secret store.
get_cfg_env_first(key) == py_or(env[key], secrets[key])
\* st.secrets.get(key) or os.getenv(key)
get_cfg(key) == py_or(secrets[key], env[key])

IsMissing(k) == ~Truthy(get_cfg(k))

\* Variant of missing_keys: stops at the first unresolved key.
missing_keys_first_only ==
    LET all == SelectSeq(REQUIRED, IsMissing)
    IN  IF all = <<>> THEN <<>> ELSE <<all[1]>>
\* [k for k in REQUIRED if not get_cfg(k)]
missing_keys == SelectSeq(REQUIRED, IsMissing)

\* sep.join(items), as the list of its pieces
RECURSIVE join(_, _)
join(sep, items) ==
    IF Len(items) = 0 THEN <<>>
    ELSE IF Len(items) = 1 THEN items
    ELSE join(sep, SubSeq(items, 1, Len(items) - 1)) \o <<sep, items[Len(items)]>>

error_text(m) == <<"Missing configuration for: ">> \o join(", ", m) \o <<".">>

CheckConfig ==
    /\ pc = "start"
    /\ missing' = missing_keys
    /\ IF missing' # <<>>
       THEN /\ errorMsg' = error_text(missing')
            /\ pc' = "stopped"
       ELSE /\ errorMsg' = <<>>
            /\ pc' = "configured"
    /\ UNCHANGED <<configVars, engine, store, cache, now, loadResult, queries,
                   passVars, seedVars>>

-----------------------------------------------------------------------------
(* The engine, lines 34-49 *)

\* urllib.parse.quote_plus on the values the configurations hold.
quote_plus(v) ==
    CASE v = "e v" -> "e+v"
      [] v = "s/v" -> "s%2Fv"
      [] OTHER     -> v

DefaultPort == "1433"

port == py_or(get_cfg("DB_PORT"), DefaultPort)

\* The fields the f-string of lines 44-48 is built from.
conn_str ==
    [driver   |-> quote_plus(get_cfg("DRIVER")),
     server   |-> get_cfg("SERVER"),
     database |-> get_cfg("DATABASE"),
     uid      |-> get_cfg("UID"),
     pwd      |-> quote_plus(get_cfg("PWD")),
     port     |-> port]

\* st.cache_resource: built on the first call, the same object afterwards.
get_engine == IF engine = <<>> THEN <<conn_str>> ELSE engine

-----------------------------------------------------------------------------
(* The row source, lines 52-56 *)

TTL == 600

\* Variant of cache_fresh: an entry of age ttl is still served.
cache_fresh_inclusive(c, t) == c # <<>> /\ t - c[1].fetchedAt <= TTL
\* st.cache_data(ttl=600): an entry is served while it is younger than ttl.
cache_fresh(c, t) == c # <<>> /\ t - c[1].fetchedAt < TTL

\* Variant of cache_write: a failed call is cached as an empty result.
cache_write_always(c, ok, value, t) ==
    <<[value |-> IF ok THEN value ELSE <<>>, fetchedAt |-> t]>>
\* What the cache holds after the body of load_data ran at time t: its
\* return value, or what it held before when the body raised.
cache_write(c, ok, value, t) ==
    IF ok THEN <<[value |-> value, fetchedAt |-> t]>> ELSE c

\* df = load_data().  ok: whether pd.read_sql succeeds.
load_data(ok) ==
    /\ pc = "configured"
    /\ IF cache_fresh(cache, now)
       THEN /\ df' = cache[1].value
            /\ loadResult' = "hit"
            /\ queries' = 0
            /\ pc' = "loaded"
            /\ UNCHANGED <<engine, cache>>
       ELSE /\ engine' = get_engine
            /\ queries' = 1
            /\ cache' = cache_write(cache, ok, store, now)
            /\ IF ok
               THEN /\ df' = store
                    /\ loadResult' = "fetched"
                    /\ pc' = "loaded"
               ELSE /\ loadResult' = "error"
                    /\ pc' = "failed"
                    /\ UNCHANGED df
    /\ UNCHANGED <<configVars, missing, errorMsg, store, now, cat_sel,
                   brand_sel, size_sel, colour_sel, price_min, price_max,
                   data, kpi1, kpi2, seedVars>>

LoadData == \E ok \in BOOLEAN : load_data(ok)

-----------------------------------------------------------------------------
(* Python conversions of lines 87-88 *)

DigitChar(d) == <<"0", "1", "2", "3", "4", "5", "6", "7", "8", "9">>[d + 1]

RECURSIVE Digits(_)
Digits(n) == IF n < 10 THEN <<DigitChar(n)>>
             ELSE Append(Digits(n \div 10), DigitChar(n % 10))

\* f"{n:,}": the decimal digits of n with a comma before every group of
\* three digits counted from the right.
RECURSIVE Grouped(_, _)
Grouped(ds, i) ==
    IF i > Len(ds) THEN <<>>
    ELSE (IF i > 1 /\ (Len(ds) - i + 1) % 3 = 0 THEN <<",", ds[i]>> ELSE <<ds[i]>>)
         \o Grouped(ds, i + 1)

format_thousands(n) == Grouped(Digits(n), 1)

-----------------------------------------------------------------------------
(* The sidebar widgets, lines 59-72 *)

\* st.sidebar.multiselect(label, options, default): the user's selection, a
\* subset of the options; the default until the user changes it.  options
\* is sorted(col.unique()) and default is list(col.unique()): as sets these
\* are the same set, and isin reads the selection as a set.
multiselect_default(col) == Range(unique(col))

multiselect(col) == SUBSET Range(unique(col))

\* st.sidebar.slider(label, min_value, max_value, value): a pair lo <= hi
\* inside [min_value, max_value]; the default value until the user drags.
slider_default(col) == <<series_min(col), series_max(col)>>

slider(col) ==
    {slider_default(col)} \cup
    IF Len(col) = 0 THEN {}
    ELSE LET lo == series_min(col)[1]
             hi == series_max(col)[1]
             positions == {p \in SliderGrid \cup {lo, hi} : lo <= p /\ p <= hi}
         IN  {<<Num(r[1]), Num(r[2])>> : r \in {q \in positions \X positions : q[1] <= q[2]}}

Widgets ==
    /\ pc = "loaded"
    /\ cat_sel'    \in multiselect(Column(df, "Category"))
    /\ brand_sel'  \in multiselect(Column(df, "Brand"))
    /\ size_sel'   \in multiselect(Column(df, "Size"))
    /\ colour_sel' \in multiselect(Column(df, "Colour"))
    /\ \E r \in slider(Column(df, "Price")) :
          /\ price_min' = r[1]
          /\ price_max' = r[2]
    /\ pc' = "widgets"
    /\ UNCHANGED <<configVars, missing, errorMsg, engine, store, cache, now,
                   loadResult, queries, df, data, kpi1, kpi2, seedVars>>

-----------------------------------------------------------------------------
(* The filter, lines 74-81 *)

mask(frame, cats, brands, sizes, colours, lo, hi) ==
    LET a == isin(Column(frame, "Category"), cats)
        b == isin(Column(frame, "Brand"), brands)
        c == isin(Column(frame, "Size"), sizes)
        d == isin(Column(frame, "Colour"), colours)
        e == between(Column(frame, "Price"), lo, hi)
    IN  [i \in 1..Len(frame) |-> a[i] /\ b[i] /\ c[i] /\ d[i] /\ e[i]]

Filter ==
    /\ pc = "widgets"
    /\ data' = boolean_index(df, mask(df, cat_sel, brand_sel, size_sel,
                                      colour_sel, price_min, price_max))
    /\ pc' = "masked"
    /\ UNCHANGED <<configVars, missing, errorMsg, engine, store, cache, now,
                   loadResult, queries, df, cat_sel, brand_sel, size_sel,
                   colour_sel, price_min, price_max, kpi1, kpi2, seedVars>>

-----------------------------------------------------------------------------
(* The metrics, lines 86-88 *)

\* len(data)
kpi1_value(frame, view) == Len(view)

\* Variant of kpi2_value: the units of df instead of data.
kpi2_value_unfiltered(frame, view) == series_sum(Column(frame, "UnitsInStock"))
\* data.UnitsInStock.sum()
kpi2_value(frame, view) == series_sum(Column(view, "UnitsInStock"))

\* int(x) raises ValueError on NaN.
Metrics ==
    /\ pc = "masked"
    /\ kpi1' = format_thousands(kpi1_value(df, data))
    /\ LET total == kpi2_value(df, data)
       IN  IF IsNaN(total)
           THEN /\ pc' = "raised"
                /\ UNCHANGED kpi2
           ELSE /\ kpi2' = format_thousands(total[1])
                /\ pc' = "done"
    /\ UNCHANGED <<configVars, missing, errorMsg, engine, store, cache, now,
                   loadResult, queries, df, cat_sel, brand_sel, size_sel,
                   colour_sel, price_min, price_max, data, seedVars>>

-----------------------------------------------------------------------------
(* The filter and the metrics over every bounded RecordSet *)

InitFilter ==
    /\ secrets = [k \in Keys |-> None]
    /\ env = [k \in Keys |-> IF k = "DB_PORT" THEN None ELSE "e v"]
    /\ missing = <<>>
    /\ errorMsg = <<>>
    /\ engine = <<>>
    /\ store = <<>>
    /\ tableExists = TRUE
    /\ cache = <<>>
    /\ now = 0
    /\ loadResult = "fetched"
    /\ queries = 1
    /\ df \in SeqsUpTo(Catalog, MaxRows)
    /\ cat_sel = {} /\ brand_sel = {} /\ size_sel = {} /\ colour_sel = {}
    /\ price_min = NaN /\ price_max = NaN
    /\ data = <<>>
    /\ kpi1 = <<>> /\ kpi2 = <<>>
    /\ pc = "loaded"
    /\ seedPc = "idle" /\ rows = <<>> /\ prng = 0 /\ seedRuns = 0
    /\ store0 = <<>> /\ existed0 = TRUE

NextFilter == Widgets \/ Filter \/ Metrics

FilterSpec == InitFilter /\ [][NextFilter]_vars

-----------------------------------------------------------------------------
(* The dashboard: render passes, the clock and writers of the table *)

PassStart ==
    /\ missing = <<>>
    /\ errorMsg = <<>>
    /\ df = <<>>
    /\ cat_sel = {} /\ brand_sel = {} /\ size_sel = {} /\ colour_sel = {}
    /\ price_min = NaN /\ price_max = NaN
    /\ data = <<>>
    /\ kpi1 = <<>> /\ kpi2 = <<>>
    /\ pc = "start"

SeedIdle ==
    /\ seedPc = "idle" /\ rows = <<>> /\ prng = 0 /\ seedRuns = 0
    /\ store0 = <<>> /\ existed0 = TRUE /\ tableExists = TRUE

ProcessStart ==
    /\ engine = <<>>
    /\ cache = <<>>
    /\ now = 0
    /\ loadResult = "none"
    /\ queries = 0

\* The rows other programs write to the table while the dashboard runs.
AppCatalog ==
    { Row("Jeans",  "Acme", "M", "Blue", 4500, 10),
      Row("Hoodie", "Acme", "M", "Blue", 4000, 20) }

Config(s, e) == [secrets |-> s, env |-> e]

\* Configurations the dashboard is started with: the settings in a local
\* .env file, in the secret store with an empty DB_PORT, and with the
\* password and the user name set nowhere.
AppConfigs ==
    { Config([k \in Keys |-> None],
             [k \in Keys |-> IF k = "DB_PORT" THEN None ELSE "e v"]),
      Config([k \in Keys |-> IF k = "DB_PORT" THEN "" ELSE "s/v"],
             [k \in Keys |-> IF k = "DB_PORT" THEN "e v" ELSE None]),
      Config([k \in Keys |-> IF k \in {"UID", "PWD"} THEN None ELSE "s/v"],
             [k \in Keys |-> IF k = "UID" THEN "" ELSE None]) }

Init ==
    /\ \E c \in AppConfigs : secrets = c.secrets /\ env = c.env
    /\ store = <<>>
    /\ ProcessStart
    /\ PassStart
    /\ SeedIdle

\* The UI framework runs the script again after a pass ended.
Rerun ==
    /\ pc \in {"stopped", "failed", "raised", "done"}
    /\ missing' = <<>>
    /\ errorMsg' = <<>>
    /\ df' = <<>>
    /\ cat_sel' = {} /\ brand_sel' = {} /\ size_sel' = {} /\ colour_sel' = {}
    /\ price_min' = NaN /\ price_max' = NaN
    /\ data' = <<>>
    /\ kpi1' = <<>> /\ kpi2' = <<>>
    /\ pc' = "start"
    /\ UNCHANGED <<configVars, engine, store, cache, now, loadResult, queries,
                   seedVars>>

TickSteps == {300, 599}

Tick ==
    /\ pc = "start"
    /\ \E d \in TickSteps : now + d <= MaxTime /\ now' = now + d
    /\ UNCHANGED <<configVars, missing, errorMsg, engine, store, cache,
                   loadResult, queries, passVars, pc, seedVars>>

\* Another program appends a row to dbo.Clothes.
InsertRow ==
    /\ pc = "start"
    /\ Len(store) < MaxStoreRows
    /\ \E r \in AppCatalog : store' = Append(store, r)
    /\ UNCHANGED <<configVars, missing, errorMsg, engine, cache, now,
                   loadResult, queries, passVars, pc, seedVars>>

Next ==
    \/ CheckConfig
    \/ LoadData
    \/ Widgets
    \/ Filter
    \/ Metrics
    \/ Rerun
    \/ Tick
    \/ InsertRow

Spec == Init /\ [][Next]_vars

-----------------------------------------------------------------------------
(* The configuration step over every bounded configuration *)

SecretValues == {None, "", "s/v"}
EnvValues == {None, "", "e v"}

InitConfig ==
    /\ secrets \in [Keys -> SecretValues]
    /\ env \in [Keys -> EnvValues]
    /\ store = <<>>
    /\ ProcessStart
    /\ PassStart
    /\ SeedIdle

NextConfig == CheckConfig \/ LoadData

ConfigSpec == InitConfig /\ [][NextConfig]_vars

-----------------------------------------------------------------------------
(* The seed script, src/seed_data.py *)
(* seedPc: "idle" before line 16, "connected" after line 28, "generate"    *)
(* after line 45 and inside the loop of lines 57-68, "done" after line 77, *)
(* "failed" when a statement raised.                                       *)

SeedRows == 500

categories == <<"T-Shirt", "Jeans", "Jacket", "Sneakers", "Hoodie", "Dress">>
brands     == <<"Acme", "Contoso", "NorthWind", "Tailspin", "Fabrikam">>
sizes      == <<"XS", "S", "M", "L", "XL", "XXL">>
colours    == <<"Red", "Blue", "Green", "Black", "White", "Yellow", "Purple">>

base_price(cat) ==
    CASE cat = "T-Shirt"  -> 15
      [] cat = "Jeans"    -> 45
      [] cat = "Jacket"   -> 90
      [] cat = "Sneakers" -> 75
      [] cat = "Hoodie"   -> 40
      [] cat = "Dress"    -> 60

\* States of numpy's generator, which the script does not seed.
Generators == {0, 1}

\* The n-th draw of the generator of the random module after seed(42), as
\* an index into m choices: the same sequence in every run.
Draw(n, m) == ((n * n + 7 * n + 42) % m) + 1

\* The i-th row of the loop (i counted from 0).  The price is the base
\* price displaced by up to 15 %, as the numpy generator in state g draws
\* it, in cents; the units are a draw from 5..120.
seed_row(g, i) ==
    LET cat == categories[Draw(5 * i, 6)]
    IN  Row(cat,
            brands[Draw(5 * i + 1, 5)],
            sizes[Draw(5 * i + 2, 6)],
            colours[Draw(5 * i + 3, 7)],
            base_price(cat) * 100 + (((g + i) % 3) - 1) * base_price(cat) * 15,
            4 + Draw(5 * i + 4, 116))

\* Lines 16-28: quote_plus raises TypeError on a variable that is not set.
SeedConnect ==
    /\ seedPc = "idle"
    /\ seedPc' = IF env["PWD"] = None \/ env["DRIVER"] = None
                 THEN "failed" ELSE "connected"
    /\ UNCHANGED <<configVars, missing, errorMsg, engine, store, tableExists,
                   cache, now, loadResult, queries, passVars, pc, rows, prng,
                   seedRuns, store0, existed0>>

\* Variant of ddl: the table is created anew on every run.
ddl_recreate(exists, table) == <<>>
\* The table after the DDL of lines 31-43 ran: CREATE TABLE only when
\* OBJECT_ID('dbo.Clothes','U') IS NULL.
ddl(exists, table) == IF exists THEN table ELSE <<>>

\* Lines 44-49.  ok: whether the connection and the statement succeed.
SeedDDL ==
    /\ seedPc = "connected"
    /\ \E ok \in BOOLEAN :
          IF ok
          THEN /\ store' = ddl(tableExists, store)
               /\ tableExists' = TRUE
               /\ rows' = <<>>
               /\ \E g \in Generators : prng' = g
               /\ seedPc' = "generate"
          ELSE /\ seedPc' = "failed"
               /\ UNCHANGED <<store, tableExists, rows, prng>>
    /\ UNCHANGED <<configVars, missing, errorMsg, engine, cache, now,
                   loadResult, queries, passVars, pc, seedRuns, store0,
                   existed0>>

\* One iteration of the loop of lines 57-68.
SeedGenerate ==
    /\ seedPc = "generate"
    /\ Len(rows) < SeedRows
    /\ rows' = Append(rows, seed_row(prng, Len(rows)))
    /\ UNCHANGED <<configVars, missing, errorMsg, engine, store, tableExists,
                   cache, now, loadResult, queries, passVars, pc, seedPc, prng,
                   seedRuns, store0, existed0>>

\* The table after df.to_sql(..., if_exists="append") committed.
to_sql(table, frame) == table \o frame

\* Lines 70-77.  The insert runs in one transaction: all rows or none.
SeedInsert ==
    /\ seedPc = "generate"
    /\ Len(rows) = SeedRows
    /\ \E ok \in BOOLEAN :
          IF ok
          THEN /\ store' = to_sql(store, rows)
               /\ seedRuns' = seedRuns + 1
               /\ seedPc' = "done"
          ELSE /\ seedPc' = "failed"
               /\ UNCHANGED <<store, seedRuns>>
    /\ UNCHANGED <<configVars, missing, errorMsg, engine, tableExists, cache,
                   now, loadResult, queries, passVars, pc, rows, prng, store0,
                   existed0>>

\* The script is run again.
SeedRestart ==
    /\ seedPc \in {"done", "failed"}
    /\ seedRuns < MaxSeedRuns
    /\ seedPc' = "idle"
    /\ rows' = <<>>
    /\ UNCHANGED <<configVars, missing, errorMsg, engine, store, tableExists,
                   cache, now, loadResult, queries, passVars, pc, prng,
                   seedRuns, store0, existed0>>

\* Tables the script may find when it is first run.
SeedTables ==
    { <<>>,
      <<Row("Jeans", "Acme", "M", "Blue", 4500, 10)>>,
      <<Row("Jeans", "Acme", "M", "Blue", 4500, 10),
        Row("Hoodie", "Contoso", "L", "Red", 4000, 20)>> }

InitSeed ==
    /\ secrets = [k \in Keys |-> None]
    /\ env \in { [k \in Keys |-> IF k = "DB_PORT" THEN None ELSE "e v"],
                 [k \in Keys |-> IF k \in {"DB_PORT", "PWD"} THEN None ELSE "e v"] }
    /\ tableExists \in BOOLEAN
    /\ store \in (IF tableExists THEN SeedTables ELSE {<<>>})
    /\ store0 = store
    /\ existed0 = tableExists
    /\ seedPc = "idle" /\ rows = <<>> /\ prng = 0 /\ seedRuns = 0
    /\ ProcessStart
    /\ PassStart

NextSeed == SeedConnect \/ SeedDDL \/ SeedGenerate \/ SeedInsert \/ SeedRestart

SeedSpec == InitSeed /\ [][NextSeed]_vars

-----------------------------------------------------------------------------
(* Properties of the filter and of the metrics *)

Masked == pc \in {"masked", "done", "raised"}

\* The five predicates of the filter, on one record.
Satisfies(r) ==
    /\ r.Category \in cat_sel
    /\ r.Brand \in brand_sel
    /\ r.Size \in size_sel
    /\ r.Colour \in colour_sel
    /\ ~IsNaN(price_min) /\ ~IsNaN(price_max)
    /\ price_min[1] <= r.Price /\ r.Price <= price_max[1]

Kept == {i \in 1..Len(df) : Satisfies(df[i])}

\* The k-th smallest element of a set of integers.
Nth(S, k) == CHOOSE i \in S : Cardinality({j \in S : j < i}) = k - 1

RECURSIVE SumOver(_, _)
SumOver(S, f) ==
    IF S = {} THEN 0
    ELSE LET i == CHOOSE j \in S : TRUE IN f[i] + SumOver(S \ {i}, f)

DigitValue(c) == CHOOSE d \in 0..9 : DigitChar(d) = c

\* The number a metric text shows, read digit by digit, commas skipped.
RECURSIVE ReadMetric(_)
ReadMetric(text) ==
    IF Len(text) = 0 THEN 0
    ELSE LET init == ReadMetric(SubSeq(text, 1, Len(text) - 1))
             c    == text[Len(text)]
         IN  IF c = "," THEN init ELSE 10 * init + DigitValue(c)

\* C1: the filtered view is exactly the subsequence of df, in df's order,
\* of the records that satisfy all five predicates, the price bounds both
\* inclusive: none that satisfies them is dropped, none that fails one is kept.
C1_FilteredViewIsExactSubsequence ==
    Masked =>
        /\ Len(data) = Cardinality(Kept)
        /\ \A k \in 1..Len(data) : data[k] = df[Nth(Kept, k)]

\* C1 witness: three rows, the first dropped by the price range alone, the
\* other two kept with their prices on the two bounds of the range.
C1_Witness ==
    /\ pc = "masked"
    /\ Len(df) = 3
    /\ data = <<df[2], df[3]>>
    /\ df[1].Category \in cat_sel /\ df[1].Brand \in brand_sel
    /\ df[1].Size \in size_sel /\ df[1].Colour \in colour_sel
    /\ df[1].Price < price_min[1]
    /\ df[3].Price = price_min[1]
    /\ df[2].Price = price_max[1]
    /\ df[2] # df[3]

\* C2: with the four selections equal to the distinct values of df and the
\* price range equal to [min(Price), max(Price)], the widgets' defaults, the
\* filtered view equals df.
C2_DefaultsKeepEveryRecord ==
    ( /\ Masked
      /\ cat_sel = multiselect_default(Column(df, "Category"))
      /\ brand_sel = multiselect_default(Column(df, "Brand"))
      /\ size_sel = multiselect_default(Column(df, "Size"))
      /\ colour_sel = multiselect_default(Column(df, "Colour"))
      /\ <<price_min, price_max>> = slider_default(Column(df, "Price")) )
    => data = df

\* C2 witness: the defaults on three rows with three different prices.
C2_Witness ==
    /\ pc = "masked"
    /\ Len(df) = 3
    /\ Cardinality({df[i].Price : i \in 1..3}) = 3
    /\ cat_sel = {df[i].Category : i \in 1..3}
    /\ brand_sel = {df[i].Brand : i \in 1..3}
    /\ size_sel = {df[i].Size : i \in 1..3}
    /\ colour_sel = {df[i].Colour : i \in 1..3}
    /\ \A i \in 1..3 : price_min[1] <= df[i].Price /\ df[i].Price <= price_max[1]
    /\ \E i, j \in 1..3 : df[i].Price = price_min[1] /\ df[j].Price = price_max[1]
    /\ data = df

\* C3: when one of the four selections is empty, the filtered view is empty
\* and the Items metric shows 0.
C3_EmptySelectionGivesEmptyView ==
    (Masked /\ (cat_sel = {} \/ brand_sel = {} \/ size_sel = {} \/ colour_sel = {}))
    => /\ data = <<>>
       /\ pc = "done" => kpi1 = <<"0">>

\* C3 witness: rows are loaded, only the brand selection is empty, the other
\* three are full and the price range spans every row.
C3_Witness ==
    /\ pc = "done"
    /\ Len(df) >= 2
    /\ brand_sel = {}
    /\ cat_sel = {df[i].Category : i \in DOMAIN df}
    /\ size_sel = {df[i].Size : i \in DOMAIN df}
    /\ colour_sel = {df[i].Colour : i \in DOMAIN df}
    /\ \A i \in DOMAIN df : price_min[1] <= df[i].Price /\ df[i].Price <= price_max[1]
    /\ data = <<>>
    /\ kpi1 = <<"0">>

\* C8: Items shows the number of records of the view and Units shows the
\* sum of UnitsInStock over the records of the view, which are the records
\* of df that satisfy the filter; an excluded record adds to neither.
C8_MetricsCountTheView ==
    pc = "done" =>
        /\ ReadMetric(kpi1) = Len(data)
        /\ ReadMetric(kpi1) = Cardinality(Kept)
        /\ ReadMetric(kpi2) = SumOver(DOMAIN data, Column(data, "UnitsInStock"))
        /\ ReadMetric(kpi2) = SumOver(Kept, Column(df, "UnitsInStock"))

\* C8 witness: a view of two records, one record excluded, more than a
\* thousand units in the view.
C8_Witness ==
    /\ pc = "done"
    /\ Len(df) = 3
    /\ Len(data) = 2
    /\ kpi1 = <<"2">>
    /\ kpi2 = <<"1", ",", "4", "0", "0">>
    /\ \E i \in 1..3 : df[i].UnitsInStock = 20 /\ ~Satisfies(df[i])

-----------------------------------------------------------------------------
(* Properties of the configuration step *)

\* A key no layer resolves: absent or empty in the secret store and in the
\* environment.
Unresolved(k) == secrets[k] \in {None, ""} /\ env[k] \in {None, ""}

UnresolvedRequired == {k \in Range(REQUIRED) : Unresolved(k)}

\* C4: when required keys are unresolved the pass shows an error naming
\* every one of them and stops with no engine built and no query issued;
\* when all five resolve, no error is shown and the pass goes on to the query.
C4_MissingKeysAllReportedAndPassStops ==
    pc # "start" =>
        IF UnresolvedRequired # {}
        THEN /\ pc = "stopped"
             /\ {t \in Range(errorMsg) : t \in Range(REQUIRED)} = UnresolvedRequired
             /\ Len(errorMsg) = 2 * Cardinality(UnresolvedRequired) + 1
             /\ engine = <<>>
             /\ queries = 0
             /\ loadResult = "none"
        ELSE /\ errorMsg = <<>>
             /\ pc \in {"configured", "loaded", "failed"}

\* C4 witness: the pass stopped with three unresolved keys, the first
\* required key not among them.
C4_Witness ==
    /\ pc = "stopped"
    /\ Cardinality(UnresolvedRequired) = 3
    /\ "DRIVER" \notin UnresolvedRequired
    /\ Len(errorMsg) = 7

\* The field of the connection string a key is rendered into, as the key's
\* value v reaches it.
Field(k) ==
    CASE k = "DRIVER"   -> engine[1].driver
      [] k = "SERVER"   -> engine[1].server
      [] k = "DATABASE" -> engine[1].database
      [] k = "UID"      -> engine[1].uid
      [] k = "PWD"      -> engine[1].pwd
      [] k = "DB_PORT"  -> engine[1].port

Rendered(k, v) == IF k \in {"DRIVER", "PWD"} THEN quote_plus(v) ELSE v

\* C5 as stated: a key the secret store holds a value for resolves to that
\* value, whatever the environment holds, and DB_PORT resolves to "1433"
\* when neither layer holds it.
C5_AsStated ==
    engine # <<>> =>
        /\ \A k \in Keys : secrets[k] # None => Field(k) = Rendered(k, secrets[k])
        /\ (secrets["DB_PORT"] = None /\ env["DB_PORT"] = None)
               => Field("DB_PORT") = "1433"

\* C5 amended: a key resolves to the secret store's value when that value
\* is not empty, whatever the environment holds; to the environment's value
\* when the secret store holds nothing or the empty string for it; and
\* DB_PORT resolves to "1433" when neither layer holds a non-empty value.
C5_NonEmptySecretTakesPrecedence ==
    engine # <<>> =>
        \A k \in Keys :
            /\ secrets[k] \notin {None, ""} => Field(k) = Rendered(k, secrets[k])
            /\ (secrets[k] \in {None, ""} /\ env[k] \notin {None, ""})
                   => Field(k) = Rendered(k, env[k])
            /\ (k = "DB_PORT" /\ Unresolved(k)) => Field(k) = "1433"

\* C5 witness: the engine is built from a key both layers hold, a key whose
\* secret is empty, a key only the environment holds, and no DB_PORT.
C5_Witness ==
    /\ engine # <<>>
    /\ secrets["DRIVER"] = "s/v" /\ env["DRIVER"] = "e v"
    /\ engine[1].driver = "s%2Fv"
    /\ secrets["UID"] = "" /\ env["UID"] = "e v"
    /\ engine[1].uid = "e v"
    /\ secrets["PWD"] = None /\ env["PWD"] = "e v"
    /\ engine[1].pwd = "e+v"
    /\ secrets["DB_PORT"] = None /\ env["DB_PORT"] = None
    /\ engine[1].port = "1433"

-----------------------------------------------------------------------------
(* Properties of the row source and of the render pass *)

LoadDataStep == pc = "configured" /\ pc' # "configured"

\* C6: a call of load_data issues the SELECT exactly when no RecordSet
\* fetched less than 600 seconds ago is cached; otherwise it returns the
\* cached RecordSet, whatever the table holds by then, and issues no query;
\* no call issues more than one query.
C6_QueryIffNoFreshCache ==
    [][ LoadDataStep =>
          LET served == cache # <<>> /\ now - cache[1].fetchedAt < 600
          IN  /\ queries' = IF served THEN 0 ELSE 1
              /\ served => /\ df' = cache[1].value
                           /\ pc' = "loaded"
                           /\ cache' = cache
              /\ (~served /\ pc' = "loaded") => df' = store ]_vars

\* C6 witness: a call 599 seconds after the fetch was served from the cache
\* although the table has changed since.
C6_Witness ==
    /\ pc = "loaded"
    /\ loadResult = "hit"
    /\ queries = 0
    /\ now - cache[1].fetchedAt = 599
    /\ df = cache[1].value
    /\ df # store

\* C7: a failed query ends the pass with the error after one attempt,
\* leaves the cache as it was, and the next call of load_data issues the
\* query again.
C7_FailureNotCachedAndRetriedNextCall ==
    [][ /\ (LoadDataStep /\ pc' = "failed")
            => /\ loadResult' = "error"
               /\ queries' = 1
               /\ cache' = cache
        /\ (LoadDataStep /\ loadResult = "error")
            => /\ queries' = 1
               /\ loadResult' \in {"fetched", "error"} ]_vars

\* C7 witness: the query failed in a pass that ran after an earlier fetch
\* had been cached and had expired.
C7_Witness ==
    /\ pc = "failed"
    /\ loadResult = "error"
    /\ queries = 1
    /\ cache # <<>>
    /\ cache[1].value # store

-----------------------------------------------------------------------------
(* Properties of the seed script *)

IsPrefix(s, t) == Len(s) <= Len(t) /\ SubSeq(t, 1, Len(s)) = s

\* C10: over the runs of the seed script the table is created only when it
\* does not exist, no row already in it is deleted or changed, and each
\* successful run appends 500 rows: after k successful runs a table that
\* held n rows holds n + 500 * k.
C10_SeedOnlyAppends ==
    [][ /\ IsPrefix(store, store')
        /\ tableExists => tableExists'
        /\ (~tableExists /\ tableExists') => (~existed0 /\ store' = <<>>)
        /\ seedRuns' \in {seedRuns, seedRuns + 1}
        /\ Len(store') = Len(store) + 500 * (seedRuns' - seedRuns)
        /\ IsPrefix(store0', store')
        /\ Len(store') = Len(store0') + 500 * seedRuns' ]_vars

\* C10 witness: the second successful run on a table that existed with two
\* rows has ended.
C10_Witness ==
    /\ seedPc = "done"
    /\ seedRuns = 2
    /\ existed0
    /\ Len(store0) = 2
    /\ Len(store) = 1002
    /\ SubSeq(store, 1, 2) = store0

=============================================================================
